---- MODULE Spec2Model ----
(***************************************************************************)
(* tundoku-killer backend: the book registry handlers and the deadline     *)
(* sweep over the Firestore "books" collection.                            *)
(*                                                                         *)
(* Two builds of the backend are in the repository: backend/main.go (all   *)
(* handlers, static taunt pool, sweep over "unread" and "insulted") and an *)
(* earlier one (register and sweep only, remote taunt generation, sweep    *)
(* over "unread", register as Add followed by Set).  `variant` says which  *)
(* build a behaviour runs.                                                 *)
(*                                                                         *)
(* A handler is one action when it makes at most one store call; a handler *)
(* that makes several remote calls (update: Get then Set, the sweep's      *)
(* loop, the earlier register: Add then Set) is one action per remote      *)
(* call, since net/http serves every request on its own goroutine and the  *)
(* calls of different requests interleave.  Every remote call can fail:    *)
(* the code has an err != nil branch for each.                             *)
(*                                                                         *)
(* Spec runs both builds with every handler; SpecMain runs main.go alone;  *)
(* SpecSweeps runs main.go with create, complete and sweep requests only;  *)
(* SpecCors adds OPTIONS requests to SpecSweeps; SpecLive runs both builds *)
(* with creates, completes and the scheduler's sweeps under fairness.      *)
(***************************************************************************)
EXTENDS Integers, FiniteSets, Sequences, TLC

\* ------------------------------------------------------------------ bounds
MaxBooks == 2
MaxTime == 2
MaxRequests == 3

\* --------------------------------------------------------------- constants
StatusOK == 200
StatusCreated == 201
StatusBadRequest == 400
StatusUnauthorized == 401
StatusNotFound == 404
StatusInternalServerError == 500
StatusMethodNotAllowed == 405

\* time.Time{} : the zero time, Deadline.IsZero()
ZeroTime == 0
\* the empty BookID string; document identifiers are 1..MaxBooks
NoId == 0

Ids == 1 .. MaxBooks
Users == {"u1", "u2"}
Variants == {"main", "legacy"}
SweepIds == {"s1", "s2"}

\* ------------------------------------------------------------------- Book
Book(t, a, d, s, l, u, b) ==
    [title |-> t, author |-> a, deadline |-> d, status |-> s,
     insultLevel |-> l, userId |-> u, bookId |-> b]

\* the zero value of the struct: what a body of {} decodes to
ZeroBook == Book("", "", ZeroTime, "", 0, "", NoId)

\* Request bodies of POST /api/books: well-formed ones, and the same with one
\* required field missing.
GoodBodies ==
    { Book("t", "a", 1, "", 3, u, NoId) : u \in Users }
    \cup { Book("t", "a", MaxTime, s, 3, "u1", NoId) : s \in {"", "reading"} }

BadBodies ==
    LET b == Book("t", "a", 1, "", 3, "u1", NoId)
    IN { [b EXCEPT !.title = ""], [b EXCEPT !.author = ""],
         [b EXCEPT !.deadline = ZeroTime], [b EXCEPT !.userId = ""] }

RegisterBodies == GoodBodies \cup BadBodies \cup {ZeroBook}

\* Request bodies of PUT /api/books: a full record, or one with only bookId and
\* userId set.
UpdateBodies ==
    { Book("t", "a", MaxTime, "unread", 3, u, b) :
        u \in Users \cup {""}, b \in Ids \cup {NoId} }
    \cup { [ZeroBook EXCEPT !.userId = u, !.bookId = b] : u \in Users, b \in Ids }

\* Request bodies of DELETE /api/books
DeleteBodies == [bookId : Ids \cup {NoId}, userId : Users \cup {""}]

\* The Authorization header of a request, and the configured CRON_SECRET
NoHeader == [scheme |-> "", cred |-> ""]
AuthHeaders ==
    { NoHeader, [scheme |-> "Bearer", cred |-> "s3cret"],
      [scheme |-> "Bearer", cred |-> "wrong"] }
CronSecrets == {"", "s3cret"}

VARIABLES
    variant,      \* which build runs
    cronSecret,   \* os.Getenv("CRON_SECRET")
    store,        \* the "books" collection: document id -> Book
    nextDoc,      \* the next identifier NewDoc / Add hands out
    now,          \* time.Now()
    sweep,        \* the running handleCheckDeadlines invocations
    upd,          \* a handleUpdateBook between its Get and its Set
    reg,          \* a legacy handleRegisterBook between its Add and its Set
    served,       \* the number of requests served so far
    completedOk,  \* history: identifiers a complete request has answered 200 for
    last          \* the response the last step sent (NoResp: none)

config == <<variant, cronSecret>>

vars == <<config, store, nextDoc, now, sweep, upd, reg, served, completedOk,
          last>>

\* ---------------------------------------------------------------- responses
NoResp ==
    [op |-> "none", code |-> 0, bookId |-> NoId, user |-> "", count |-> 0,
     books |-> {}, sw |-> "", snap |-> {}, invokedAt |-> 0, counted |-> {},
     pushed |-> {}, wrote |-> {}]

Resp(op, code) == [NoResp EXCEPT !.op = op, !.code = code]

\* -------------------------------------------------------------------- sweep
NoDoc == [ref |-> NoId, data |-> ZeroBook]

\* pc, the iterator's unread documents, the document in hand, its message and
\* count; then history: the clock, the completed set and the query's result at
\* the invocation, and what this invocation has counted, pushed (document,
\* addressee) and written.
IdleSweep ==
    [pc |-> "idle", todo |-> {}, cur |-> NoDoc, msg |-> "", count |-> 0,
     invokedAt |-> 0, doneBefore |-> {}, snap |-> {}, counted |-> {},
     pushed |-> {}, wrote |-> {}]

IdleUpd == [pc |-> "idle", book |-> ZeroBook]
IdleReg == [pc |-> "idle", ref |-> NoId, book |-> ZeroBook]

Init ==
    /\ variant \in Variants
    /\ cronSecret \in CronSecrets
    /\ store = << >>
    /\ nextDoc = 1
    /\ now = 1
    /\ sweep = [s \in SweepIds |-> IdleSweep]
    /\ upd = IdleUpd
    /\ reg = IdleReg
    /\ served = 0
    /\ completedOk = {}
    /\ last = NoResp

\* ------------------------------------------------------------ store helpers
Exists(id) == id \in DOMAIN store

\* fault: Set keeps a stored field where the submitted one is empty or zero
SetDoc_Merge(id, book) ==
    [k \in DOMAIN store \cup {id} |->
       IF k # id THEN store[k]
       ELSE IF id \notin DOMAIN store THEN book
       ELSE [book EXCEPT
               !.title = IF book.title = "" THEN store[id].title ELSE @,
               !.author = IF book.author = "" THEN store[id].author ELSE @,
               !.status = IF book.status = "" THEN store[id].status ELSE @,
               !.deadline =
                   IF book.deadline = ZeroTime THEN store[id].deadline ELSE @]]

\* docRef.Set(ctx, book): creates the document or overwrites all of it
SetDoc(id, book) ==
    [k \in DOMAIN store \cup {id} |-> IF k = id THEN book ELSE store[k]]

\* docRef.Delete(ctx): no error when the document is absent
DeleteDoc(id) == [k \in DOMAIN store \ {id} |-> store[k]]

\* fault: the status is written with Set, which replaces the whole document
UpdateStatus_WholeDoc(id, v) ==
    [store EXCEPT ![id] = [ZeroBook EXCEPT !.status = v]]

\* docRef.Update(ctx, {status: v}) on an existing document
UpdateStatus(id, v) == [store EXCEPT ![id].status = v]

\* a request arrives and its handler starts: MaxRequests of them per behaviour
Serve == served < MaxRequests /\ served' = served + 1

\* ------------------------------------------------------------------- clock
Tick ==
    /\ now < MaxTime
    /\ now' = now + 1
    /\ last' = NoResp
    /\ UNCHANGED <<config, served, store, nextDoc, sweep, upd, reg,
                   completedOk>>

\* ---------------------------------------------------------- handleRegisterBook
\* fault: the required-field check without the deadline
MissingRequired_NoDeadline(book) ==
    \/ book.title = ""
    \/ book.author = ""
    \/ book.userId = ""

\* the required-field check
MissingRequired(book) ==
    \/ book.title = ""
    \/ book.author = ""
    \/ book.deadline = ZeroTime
    \/ book.userId = ""

\* fault: no default status
WithDefaultStatus_None(book) == book

\* the default status
WithDefaultStatus(book) ==
    IF book.status = "" THEN [book EXCEPT !.status = "unread"] ELSE book

\* fault: a key that is not fresh, the latest one issued again
NewDocID_Reused == IF nextDoc > 1 THEN nextDoc - 1 ELSE nextDoc

\* firestoreClient.Collection("books").NewDoc().ID : an identifier never used
NewDocID == nextDoc

\* fault: the record stored with the identifier field as the request sent it
NewBook_RequestId(body, id) == WithDefaultStatus(body)

\* the record as stored: the default status and BookID = docRef.ID
NewBook(body, id) == [WithDefaultStatus(body) EXCEPT !.bookId = id]

\* main.go: NewDoc, then one Set of the whole record
handleRegisterBook(body, setOk) ==
    /\ Serve
    /\ variant = "main"
    /\ IF MissingRequired(body)
       THEN /\ last' = Resp("create", StatusBadRequest)
            /\ UNCHANGED <<store, nextDoc>>
       ELSE /\ NewDocID \in Ids
            /\ LET id == NewDocID
                   book == NewBook(body, id)
               IN IF setOk
                  THEN /\ store' = SetDoc(id, book)
                       /\ nextDoc' = nextDoc + 1
                       /\ last' = [Resp("create", StatusCreated)
                                     EXCEPT !.bookId = id]
                  ELSE /\ last' = Resp("create", StatusInternalServerError)
                       /\ UNCHANGED <<store, nextDoc>>
    /\ UNCHANGED <<config, now, sweep, upd, reg, completedOk>>

\* ------------------------------------------------------------ handleUpdateBook
\* fault: no owner check
OwnerMismatch_Never(existing, userId) == FALSE

\* the owner check of update and delete: the stored owner against the caller's
OwnerMismatch(existing, userId) == existing.userId # userId

\* decode, the bookId/userId check, docRef.Get and the owner check
handleUpdateBook(body, getOk) ==
    /\ Serve
    /\ variant = "main"
    /\ upd.pc = "idle"
    /\ IF body.bookId = NoId \/ body.userId = ""
       THEN /\ last' = Resp("update", StatusBadRequest)
            /\ UNCHANGED <<upd>>
       ELSE IF ~getOk \/ ~Exists(body.bookId)
       THEN /\ last' = Resp("update", StatusNotFound)
            /\ UNCHANGED <<upd>>
       ELSE IF OwnerMismatch(store[body.bookId], body.userId)
       THEN /\ last' = Resp("update", StatusUnauthorized)
            /\ UNCHANGED <<upd>>
       ELSE /\ upd' = [pc |-> "set", book |-> body]
            /\ last' = NoResp
    /\ UNCHANGED <<config, store, nextDoc, now, sweep, reg,
                   completedOk>>

\* docRef.Set(ctx, book): the whole record is overwritten
UpdateSet(setOk) ==
    /\ upd.pc = "set"
    /\ IF setOk
       THEN /\ store' = SetDoc(upd.book.bookId, upd.book)
            /\ last' = [Resp("update", StatusOK) EXCEPT !.bookId = upd.book.bookId]
       ELSE /\ last' = Resp("update", StatusInternalServerError)
            /\ UNCHANGED store
    /\ upd' = IdleUpd
    /\ UNCHANGED <<config, served, nextDoc, now, sweep, reg,
                   completedOk>>

\* ------------------------------------------------------------ handleDeleteBook
\* decode, the bookId/userId check, docRef.Get, the owner check, docRef.Delete.
\* One action: a document's owner never changes, and Delete succeeds on an
\* absent document, so a step of another request between Get and Delete
\* changes neither the answer nor the store that results.
handleDeleteBook(body, getOk, delOk) ==
    /\ Serve
    /\ variant = "main"
    /\ IF body.bookId = NoId \/ body.userId = ""
       THEN /\ last' = Resp("delete", StatusBadRequest)
            /\ UNCHANGED <<store>>
       ELSE IF ~getOk \/ ~Exists(body.bookId)
       THEN /\ last' = Resp("delete", StatusNotFound)
            /\ UNCHANGED <<store>>
       ELSE IF OwnerMismatch(store[body.bookId], body.userId)
       THEN /\ last' = Resp("delete", StatusUnauthorized)
            /\ UNCHANGED <<store>>
       ELSE IF ~delOk
       THEN /\ last' = Resp("delete", StatusInternalServerError)
            /\ UNCHANGED <<store>>
       ELSE /\ store' = DeleteDoc(body.bookId)
            /\ last' = [Resp("delete", StatusOK) EXCEPT !.bookId = body.bookId]
    /\ UNCHANGED <<config, nextDoc, now, sweep, upd, reg,
                   completedOk>>

\* -------------------------------------------------------------- handleGetBooks
\* fault: the query with the status filter that main.go has commented out
BooksOf_NotCompleted(userId) ==
    { store[k] : k \in { i \in DOMAIN store : /\ store[i].userId = userId
                                                /\ store[i].status # "completed" } }

\* Where("userId", "==", userId).Documents(ctx), read to the end
BooksOf(userId) == { store[k] : k \in { i \in DOMAIN store : store[i].userId = userId } }

\* fault: no check of the userId parameter
MissingOwner_Never(userId) == FALSE

\* the userId query parameter is absent or empty
MissingOwner(userId) == userId = ""

handleGetBooks(userId, queryOk) ==
    /\ Serve
    /\ variant = "main"
    /\ last' = IF MissingOwner(userId)
               THEN Resp("list", StatusBadRequest)
               ELSE IF ~queryOk
               THEN [Resp("list", StatusInternalServerError) EXCEPT !.user = userId]
               ELSE [Resp("list", StatusOK)
                       EXCEPT !.user = userId, !.books = BooksOf(userId)]
    /\ UNCHANGED <<config, store, nextDoc, now, sweep, upd, reg, completedOk>>

\* ---------------------------------------------------------- handleCompleteBook
\* docRef.Update(status = "completed"): an error when the document is absent
handleCompleteBook(bookId, updOk) ==
    /\ Serve
    /\ variant = "main"
    /\ IF bookId = NoId
       THEN /\ last' = Resp("complete", StatusBadRequest)
            /\ UNCHANGED <<store, completedOk>>
       ELSE IF ~updOk \/ ~Exists(bookId)
       THEN /\ last' = Resp("complete", StatusInternalServerError)
            /\ UNCHANGED <<store, completedOk>>
       ELSE /\ store' = UpdateStatus(bookId, "completed")
            /\ completedOk' = completedOk \cup {bookId}
            /\ last' = [Resp("complete", StatusOK) EXCEPT !.bookId = bookId]
    /\ UNCHANGED <<config, nextDoc, now, sweep, upd, reg>>

\* ------------------------------------------------- legacy handleRegisterBook
\* the earlier build: Collection("books").Add(ctx, book), which stores the body
\* as decoded, then docRef.Set with BookID filled in
legacyRegisterBook(body, addOk) ==
    /\ Serve
    /\ variant = "legacy"
    /\ reg.pc = "idle"
    /\ IF MissingRequired(body)
       THEN /\ last' = Resp("create", StatusBadRequest)
            /\ UNCHANGED <<store, nextDoc, reg>>
       ELSE IF ~addOk
       THEN /\ last' = Resp("create", StatusInternalServerError)
            /\ UNCHANGED <<store, nextDoc, reg>>
       ELSE /\ NewDocID \in Ids
            /\ store' = SetDoc(NewDocID, WithDefaultStatus(body))
            /\ nextDoc' = nextDoc + 1
            /\ reg' = [pc |-> "set", ref |-> NewDocID,
                       book |-> NewBook(body, NewDocID)]
            /\ last' = NoResp
    /\ UNCHANGED <<config, now, sweep, upd, completedOk>>

legacyRegisterSet(setOk) ==
    /\ reg.pc = "set"
    /\ IF setOk
       THEN /\ store' = SetDoc(reg.ref, reg.book)
            /\ last' = [Resp("create", StatusCreated) EXCEPT !.bookId = reg.ref]
       ELSE /\ last' = Resp("create", StatusInternalServerError)
            /\ UNCHANGED store
    /\ reg' = IdleReg
    /\ UNCHANGED <<config, served, nextDoc, now, sweep, upd, completedOk>>

\* -------------------------------------------------------- handleCheckDeadlines
\* "Bearer " + cronSecret
Bearer(secret) == [scheme |-> "Bearer", cred |-> secret]

\* fault: no secret check
Authorized_Always(header) == TRUE

\* the shared-secret check: skipped when no secret is configured
Authorized(header) == ~(cronSecret # "" /\ header # Bearer(cronSecret))

\* fault: the query asks for unread records only
ScanStatuses_UnreadOnly == {"unread"}

\* the statuses the query asks for
ScanStatuses == IF variant = "main" THEN {"unread", "insulted"} ELSE {"unread"}

\* fault: a query that leaves out what a sweep in flight has in hand
QueryByStatus_Unheld ==
    { [ref |-> k, data |-> store[k]] :
        k \in { i \in DOMAIN store :
                  /\ store[i].status \in ScanStatuses
                  /\ \A s \in SweepIds :
                        ~(sweep[s].pc \in {"push", "write"} /\ sweep[s].cur.ref = i) } }

\* Where("status", ...).Documents(ctx): the matching documents as of the query
QueryByStatus ==
    { [ref |-> k, data |-> store[k]] :
        k \in { i \in DOMAIN store : store[i].status \in ScanStatuses } }

\* fault: no deadline counts as passed
Before_Never(deadline, t) == FALSE

\* fault: a deadline equal to the instant passes as overdue
Before_OrEqual(deadline, t) == deadline <= t

\* book.Deadline.Before(t)
Before(deadline, t) == deadline < t

\* generateInsult: main.go picks from a literal pool and cannot fail; the
\* earlier build asks the text-generation API: a candidate, the fallback string
\* for an empty answer, or an error
GenerateOutcomes ==
    IF variant = "main" THEN {"pool"} ELSE {"candidate", "fallback", "error"}

\* the step after generateInsult returned
AfterGenerate(outcome) == IF outcome = "error" THEN "iter" ELSE "push"

\* fault: no status write after a push
AfterPush_Skip(pushOk) == "iter"

\* fault: a failed push ends the invocation
AfterPush_Abort(pushOk) == IF pushOk THEN "write" ELSE "idle"

\* fault: the status write follows a failed push too
AfterPush_Always(pushOk) == "write"

\* the step after sendLineMessage returned
AfterPush(pushOk) == IF pushOk THEN "write" ELSE "iter"

\* fault: the status write leaves the document as it was
MarkInsulted_Noop(id) == store

\* doc.Ref.Update(ctx, {status: "insulted"})
MarkInsulted(id) == UpdateStatus(id, "insulted")

\* the invocation a new sweep request runs as: the first one not in flight
FreeSlot ==
    IF sweep["s1"].pc = "idle" THEN "s1"
    ELSE IF sweep["s2"].pc = "idle" THEN "s2" ELSE "none"

\* the secret check and the query
StartSweep(s, header) ==
    /\ s = FreeSlot
    /\ IF ~Authorized(header)
       THEN /\ last' = [Resp("sweep", StatusUnauthorized) EXCEPT !.sw = s]
            /\ UNCHANGED <<sweep>>
       ELSE /\ sweep' = [sweep EXCEPT ![s] =
                           [IdleSweep EXCEPT !.pc = "iter", !.todo = QueryByStatus,
                                             !.snap = QueryByStatus,
                                             !.invokedAt = now,
                                             !.doneBefore = completedOk]]
            /\ last' = NoResp
    /\ UNCHANGED <<config, store, nextDoc, now, upd, reg, completedOk>>

\* a sweep request, one of the MaxRequests requests of a behaviour
handleCheckDeadlines(s, header) == Serve /\ StartSweep(s, header)

\* iter.Next() fails: the sweep is aborted with a 500
SweepIterError(s) ==
    /\ sweep[s].pc = "iter"
    /\ last' = [Resp("sweep", StatusInternalServerError) EXCEPT !.sw = s]
    /\ sweep' = [sweep EXCEPT ![s] = IdleSweep]
    /\ UNCHANGED <<config, served, store, nextDoc, now, upd, reg, completedOk>>

\* iter.Next() reports the end: the response with the count
SweepDone(s) ==
    /\ sweep[s].pc = "iter"
    /\ sweep[s].todo = {}
    /\ last' = [Resp("sweep", StatusOK)
                  EXCEPT !.sw = s, !.count = sweep[s].count,
                         !.snap = sweep[s].snap,
                         !.invokedAt = sweep[s].invokedAt,
                         !.counted = sweep[s].counted,
                         !.pushed = sweep[s].pushed, !.wrote = sweep[s].wrote]
    /\ sweep' = [sweep EXCEPT ![s] = IdleSweep]
    /\ UNCHANGED <<config, served, store, nextDoc, now, upd, reg, completedOk>>

\* iter.Next() yields a document: the deadline check, count++, generateInsult
SweepExamine(s, d, outcome) ==
    /\ sweep[s].pc = "iter"
    /\ d \in sweep[s].todo
    /\ sweep' = [sweep EXCEPT ![s] =
         IF Before(d.data.deadline, now)
         THEN [@ EXCEPT !.todo = @ \ {d},
                        !.count = @ + 1,
                        !.counted = @ \cup {d.ref},
                        !.pc = AfterGenerate(outcome),
                        !.cur = IF AfterGenerate(outcome) = "push" THEN d ELSE NoDoc,
                        !.msg = IF AfterGenerate(outcome) = "push" THEN outcome ELSE ""]
         ELSE [@ EXCEPT !.todo = @ \ {d}]]
    /\ last' = NoResp
    /\ UNCHANGED <<config, served, store, nextDoc, now, upd, reg, completedOk>>

\* sendLineMessage(book.UserID, insultMsg); insultMsg is not read afterwards,
\* and doc and book only by the status write
SweepPush(s, pushOk) ==
    /\ sweep[s].pc = "push"
    /\ sweep' = [sweep EXCEPT ![s] =
         IF pushOk
         THEN [@ EXCEPT !.pc = AfterPush(pushOk),
                        !.msg = "",
                        !.cur = IF AfterPush(pushOk) = "write" THEN @ ELSE NoDoc,
                        !.pushed = @ \cup {<<sweep[s].cur.ref, sweep[s].cur.data.userId>>}]
         ELSE [@ EXCEPT !.pc = AfterPush(pushOk),
                        !.msg = "",
                        !.cur = IF AfterPush(pushOk) = "write" THEN @ ELSE NoDoc]]
    /\ last' = NoResp
    /\ UNCHANGED <<config, served, store, nextDoc, now, upd, reg, completedOk>>

\* doc.Ref.Update(status = "insulted"): an error (logged only) when the call
\* fails or the document is gone
SweepWrite(s, updOk) ==
    /\ sweep[s].pc = "write"
    /\ IF updOk /\ Exists(sweep[s].cur.ref)
       THEN /\ store' = MarkInsulted(sweep[s].cur.ref)
            /\ sweep' = [sweep EXCEPT ![s].pc = "iter",
                                      ![s].cur = NoDoc,
                                      ![s].wrote = @ \cup {sweep[s].cur.ref}]
       ELSE /\ sweep' = [sweep EXCEPT ![s].pc = "iter", ![s].cur = NoDoc]
            /\ UNCHANGED store
    /\ last' = NoResp
    /\ UNCHANGED <<config, served, nextDoc, now, upd, reg, completedOk>>

Sweeper(s) ==
    \/ \E header \in AuthHeaders : handleCheckDeadlines(s, header)
    \/ SweepIterError(s)
    \/ SweepDone(s)
    \/ \E d \in sweep[s].todo, outcome \in GenerateOutcomes :
         SweepExamine(s, d, outcome)
    \/ \E pushOk \in BOOLEAN : SweepPush(s, pushOk)
    \/ \E updOk \in BOOLEAN : SweepWrite(s, updOk)

Crud ==
    \/ \E body \in RegisterBodies, setOk \in BOOLEAN :
         handleRegisterBook(body, setOk)
    \/ \E body \in UpdateBodies, getOk \in BOOLEAN : handleUpdateBook(body, getOk)
    \/ \E setOk \in BOOLEAN : UpdateSet(setOk)
    \/ \E body \in DeleteBodies, getOk \in BOOLEAN, delOk \in BOOLEAN :
         handleDeleteBook(body, getOk, delOk)
    \/ \E userId \in Users \cup {""}, queryOk \in BOOLEAN :
         handleGetBooks(userId, queryOk)
    \/ \E bookId \in Ids \cup {NoId}, updOk \in BOOLEAN :
         handleCompleteBook(bookId, updOk)

Legacy ==
    \/ \E body \in RegisterBodies, addOk \in BOOLEAN :
         legacyRegisterBook(body, addOk)
    \/ \E setOk \in BOOLEAN : legacyRegisterSet(setOk)

\* every handler of both builds; up to two sweeps in flight
Next ==
    \/ Tick
    \/ Crud
    \/ Legacy
    \/ \E s \in SweepIds : Sweeper(s)

Spec == Init /\ [][Next]_vars

\* every handler of main.go
InitMain == Init /\ variant = "main"

NextMain ==
    \/ Tick
    \/ Crud
    \/ \E s \in SweepIds : Sweeper(s)

SpecMain == InitMain /\ [][NextMain]_vars

\* main.go with registrations, complete requests and sweeps only
NextSweeps ==
    \/ Tick
    \/ \E body \in RegisterBodies, setOk \in BOOLEAN :
         handleRegisterBook(body, setOk)
    \/ \E bookId \in Ids \cup {NoId}, updOk \in BOOLEAN :
         handleCompleteBook(bookId, updOk)
    \/ \E s \in SweepIds : Sweeper(s)

SpecSweeps == InitMain /\ [][NextSweeps]_vars

\* --------------------------------------------------------------- corsMiddleware
\* the routes of main.go whose handlers read or write records
Routes == {"/api/books", "/api/books/complete", "/api/cron/check"}

\* fault: OPTIONS is passed on to the wrapped handler
IsPreflight_Never(method) == FALSE

\* r.Method == "OPTIONS"
IsPreflight(method) == method = "OPTIONS"

\* The wrapper on an OPTIONS request to a route: 200 and return.  (Requests of
\* the other methods pass through it to the handlers above.  Were OPTIONS
\* passed on, handleBooks and handleCompleteBook would answer Method Not
\* Allowed and handleCheckDeadlines, which reads no method, would run.)
corsMiddleware(route, header) ==
    IF IsPreflight("OPTIONS")
    THEN /\ Serve
         /\ last' = Resp("options", StatusOK)
         /\ UNCHANGED <<config, store, nextDoc, now, sweep, upd, reg,
                        completedOk>>
    ELSE IF route = "/api/cron/check"
    THEN FreeSlot \in SweepIds /\ handleCheckDeadlines(FreeSlot, header)
    ELSE /\ Serve
         /\ last' = Resp("options", StatusMethodNotAllowed)
         /\ UNCHANGED <<config, store, nextDoc, now, sweep, upd, reg,
                        completedOk>>

\* main.go with registrations, complete requests, sweeps and preflights
NextCors ==
    \/ NextSweeps
    \/ \E route \in Routes, header \in AuthHeaders : corsMiddleware(route, header)

SpecCors == InitMain /\ [][NextCors]_vars

\* ------------------------------------------------------------------ liveness
\* the steps of the loop of a sweep in flight
SweepLoop(s) ==
    \/ SweepIterError(s)
    \/ SweepDone(s)
    \/ \E d \in sweep[s].todo, outcome \in GenerateOutcomes :
         SweepExamine(s, d, outcome)
    \/ \E pushOk \in BOOLEAN : SweepPush(s, pushOk)
    \/ \E updOk \in BOOLEAN : SweepWrite(s, updOk)

\* the scheduler's sweep request: it comes again and again, outside the
\* MaxRequests requests of the clients, each one after the answer to the one
\* before
CronSweep(s) ==
    /\ \A t \in SweepIds : sweep[t].pc = "idle"
    /\ \E header \in AuthHeaders : StartSweep(s, header) /\ UNCHANGED served

\* a sweep request of the scheduler that passes the secret check
CronSweepAccepted(s) ==
    /\ \A t \in SweepIds : sweep[t].pc = "idle"
    /\ \E header \in AuthHeaders :
         Authorized(header) /\ StartSweep(s, header) /\ UNCHANGED served

\* Request bodies of the creates that run beside the scheduler's sweeps
LiveBodies == { b \in GoodBodies : b.userId = "u1" /\ b.deadline = 1 }

\* iter.Next() yields the document of record id and a message is generated
ExamineWithMessage(s, id) ==
    \E d \in sweep[s].todo, outcome \in GenerateOutcomes \ {"error"} :
      d.ref = id /\ SweepExamine(s, d, outcome)

\* the push for record id succeeds
PushSucceeds(s, id) == sweep[s].cur.ref = id /\ SweepPush(s, TRUE)

\* the status write for record id succeeds
WriteSucceeds(s, id) == sweep[s].cur.ref = id /\ SweepWrite(s, TRUE)

\* both builds with create and complete requests and the scheduler's sweeps
NextLive ==
    \/ Tick
    \/ \E body \in LiveBodies, setOk \in BOOLEAN :
         handleRegisterBook(body, setOk)
    \/ \E body \in LiveBodies, addOk \in BOOLEAN :
         legacyRegisterBook(body, addOk)
    \/ \E setOk \in BOOLEAN : legacyRegisterSet(setOk)
    \/ \E bookId \in Ids, updOk \in BOOLEAN :
         handleCompleteBook(bookId, updOk)
    \/ \E s \in SweepIds : CronSweep(s)
    \/ \E s \in SweepIds : SweepLoop(s)

\* The scheduler keeps invoking the sweep and the server keeps running the
\* sweeps in flight (weak fairness); a document that the query keeps
\* returning is examined in the end, and a push and a status write that keep
\* being attempted for a record succeed in the end (strong fairness).
Fairness ==
    /\ WF_vars(\E s \in SweepIds : CronSweepAccepted(s))
    /\ WF_vars(\E s \in SweepIds : SweepLoop(s))
    /\ \A id \in Ids :
         /\ SF_vars(\E s \in SweepIds : ExamineWithMessage(s, id))
         /\ SF_vars(\E s \in SweepIds : PushSucceeds(s, id))
         /\ SF_vars(\E s \in SweepIds : WriteSucceeds(s, id))

SpecLive == Init /\ [][NextLive]_vars /\ Fairness

\* ================================================================ properties
\* the documents that appear in a set of (document, addressee) pushes
Refs(pushes) == { p[1] : p \in pushes }

\* C1 as stated: every update or delete request that names an existing record
\* and carries a userId other than the stored one is answered Unauthorized and
\* leaves the store, and any write in preparation, as they were.  (The tests
\* on last' and upd' select the steps of the two handlers: an update step
\* answers or prepares its write, a delete step always answers.)
C1_ForeignRejectedUnauthorized ==
    [][ /\ (last'.op = "update" \/ upd' # upd) =>
           \A body \in UpdateBodies, getOk \in BOOLEAN :
             ( /\ Exists(body.bookId)
               /\ store[body.bookId].userId # body.userId
               /\ handleUpdateBook(body, getOk) )
             => ( /\ last'.op = "update"
                  /\ last'.code = StatusUnauthorized
                  /\ store' = store
                  /\ upd' = upd )
        /\ last'.op = "delete" =>
           \A body \in DeleteBodies, getOk \in BOOLEAN, delOk \in BOOLEAN :
             ( /\ Exists(body.bookId)
               /\ store[body.bookId].userId # body.userId
               /\ handleDeleteBook(body, getOk, delOk) )
             => ( /\ last'.op = "delete"
                  /\ last'.code = StatusUnauthorized
                  /\ store' = store ) ]_vars

\* C1 amended: such a request with a non-empty userId is rejected, as
\* Unauthorized when the handler's read of the record succeeds and as Not Found
\* when that read fails, and the store and any write in preparation are as
\* before; with an empty userId it is rejected as Bad Request, equally without
\* a write.
C1_ForeignRejected ==
    [][ /\ (last'.op = "update" \/ upd' # upd) =>
           \A body \in UpdateBodies, getOk \in BOOLEAN :
             ( /\ Exists(body.bookId)
               /\ store[body.bookId].userId # body.userId
               /\ handleUpdateBook(body, getOk) )
             => ( /\ last'.op = "update"
                  /\ last'.code = IF body.userId = "" THEN StatusBadRequest
                                  ELSE IF getOk THEN StatusUnauthorized
                                  ELSE StatusNotFound
                  /\ store' = store
                  /\ upd' = upd )
        /\ last'.op = "delete" =>
           \A body \in DeleteBodies, getOk \in BOOLEAN, delOk \in BOOLEAN :
             ( /\ Exists(body.bookId)
               /\ store[body.bookId].userId # body.userId
               /\ handleDeleteBook(body, getOk, delOk) )
             => ( /\ last'.op = "delete"
                  /\ last'.code = IF body.userId = "" THEN StatusBadRequest
                                  ELSE IF getOk THEN StatusUnauthorized
                                  ELSE StatusNotFound
                  /\ store' = store ) ]_vars

\* an update was just answered Unauthorized while the store holds a record
C1_Witness ==
    /\ last.op = "update"
    /\ last.code = StatusUnauthorized
    /\ DOMAIN store # {}

\* C2: a sweep writes "insulted" for a record only after its own push for that
\* record succeeded: whatever an invocation has written it has pushed for, the
\* invocation is at its status write only with the push for the document in
\* hand done, and a finished sweep reports no write without a push.
C2_WriteOnlyAfterPush ==
    /\ \A s \in SweepIds :
         /\ sweep[s].wrote \subseteq Refs(sweep[s].pushed)
         /\ sweep[s].pc = "write" =>
              <<sweep[s].cur.ref, sweep[s].cur.data.userId>> \in sweep[s].pushed
    /\ last.op = "sweep" => last.wrote \subseteq Refs(last.pushed)

\* a finished sweep that wrote one record's status and, after a failed
\* generation or push, left another counted record unwritten
C2_Witness ==
    /\ last.op = "sweep"
    /\ last.code = StatusOK
    /\ last.wrote # {}
    /\ last.counted \ Refs(last.pushed) # {}
    /\ (last.counted \ Refs(last.pushed)) \cap last.wrote = {}

\* C3 as stated: a record a sweep counts has a deadline strictly before the
\* instant at which that sweep was invoked.
C3_CountedBeforeInvocation ==
    [][ \A s \in SweepIds, outcome \in GenerateOutcomes : \A d \in sweep[s].todo :
          (SweepExamine(s, d, outcome) /\ sweep'[s].count = sweep[s].count + 1)
          => d.data.deadline < sweep[s].invokedAt ]_vars

\* C3 amended: a record a sweep counts has a deadline, as the sweep's query read
\* it, strictly before the instant at which the sweep examines the record, an
\* instant at or after the invocation; a record whose deadline is at or after
\* that instant is not counted, pushed for or written by that step.
C3_CountedBeforeExamination ==
    [][ \A s \in SweepIds, outcome \in GenerateOutcomes : \A d \in sweep[s].todo :
          SweepExamine(s, d, outcome)
          => /\ sweep[s].invokedAt <= now
             /\ sweep'[s].count = sweep[s].count + 1 => d.data.deadline < now
             /\ ~(d.data.deadline < now) =>
                  /\ sweep'[s].count = sweep[s].count
                  /\ sweep'[s].counted = sweep[s].counted
                  /\ sweep'[s].pc = "iter"
                  /\ store' = store ]_vars

\* a sweep in flight has counted one record and passed over another
C3_Witness ==
    \E s \in SweepIds :
      /\ sweep[s].counted # {}
      /\ \E d \in sweep[s].snap :
           /\ d \notin sweep[s].todo
           /\ d.ref \notin sweep[s].counted

\* C4: once a complete request for a record has succeeded, the record's status
\* is "completed", and no sweep invoked after that success counts the record,
\* pushes for it or writes its status.
C4_CompletedIsFinal ==
    \A id \in completedOk :
      /\ Exists(id) => store[id].status = "completed"
      /\ \A s \in SweepIds :
           id \in sweep[s].doneBefore =>
             /\ id \notin sweep[s].counted
             /\ id \notin Refs(sweep[s].pushed)
             /\ id \notin sweep[s].wrote

\* the status changes of the lifecycle graph
AllowedTransitions ==
    { <<"unread", "insulted">>, <<"insulted", "completed">>,
      <<"unread", "completed">>, <<"reading", "completed">> }

\* C5: whenever the stored status of a record changes, the change is one of
\* unread to insulted, insulted to completed, unread to completed or reading
\* to completed; in particular nothing leaves "completed".
C5_StatusGraph ==
    [][ \A id \in DOMAIN store \cap DOMAIN store' :
          store'[id].status # store[id].status
          => <<store[id].status, store'[id].status>> \in AllowedTransitions ]_vars

\* C6: a create request with an empty title, author or userId or a zero
\* deadline is answered Bad Request and adds nothing to the store.  (A create
\* step of either build answers or, in the earlier build, holds its record for
\* the second write: the test on last' and reg' selects these steps.)
C6_MissingFieldRejected ==
    [][ (last'.op = "create" \/ reg' # reg) =>
        \A body \in RegisterBodies, ok \in BOOLEAN :
          ( /\ \/ body.title = ""
               \/ body.author = ""
               \/ body.userId = ""
               \/ body.deadline = ZeroTime
            /\ handleRegisterBook(body, ok) \/ legacyRegisterBook(body, ok) )
          => ( /\ last'.op = "create"
               /\ last'.code = StatusBadRequest
               /\ store' = store
               /\ reg' = reg ) ]_vars

\* a create was just answered Bad Request
C6_Witness ==
    /\ last.op = "create"
    /\ last.code = StatusBadRequest

\* C7: in main.go the identifier fields of the stored records are pairwise
\* distinct after every step, and no step (update, complete, sweep or any
\* other) changes the identifier field of a stored record.
C7_IdUniqueAndFixed ==
    [][ /\ \A i, j \in DOMAIN store' :
             i # j => store'[i].bookId # store'[j].bookId
        /\ \A i \in DOMAIN store \cap DOMAIN store' :
             store'[i].bookId = store[i].bookId ]_vars

\* two records are stored and an update of one of them was just applied
C7_Witness ==
    /\ variant = "main"
    /\ Cardinality(DOMAIN store) = 2
    /\ last.op = "update"
    /\ last.code = StatusOK

\* C8: in main.go a successful create stores its record under an identifier
\* that no stored record has, beside the records already stored, so two
\* successful creates, identical fields or not, give two records with distinct
\* identifiers; and a list answered for an owner contains every stored record
\* of that owner, so both of them.
C8_DistinctIdsBothListed ==
    [][ /\ (last'.op = "create" /\ last'.code = StatusCreated) =>
           \A body \in RegisterBodies, setOk \in BOOLEAN :
             handleRegisterBook(body, setOk)
             => /\ last'.bookId \notin DOMAIN store
                /\ \A k \in DOMAIN store : store[k].bookId # last'.bookId
                /\ DOMAIN store' = DOMAIN store \cup {last'.bookId}
                /\ store'[last'.bookId].bookId = last'.bookId
                /\ \A k \in DOMAIN store : store'[k] = store[k]
        /\ (last'.op = "list" /\ last'.code = StatusOK)
             => \A k \in DOMAIN store' :
                  store'[k].userId = last'.user => store'[k] \in last'.books ]_vars

\* a list was just answered with two records that differ in nothing but the
\* identifier
C8_Witness ==
    /\ last.op = "list"
    /\ last.code = StatusOK
    /\ \E b1, b2 \in last.books :
         /\ b1.bookId # b2.bookId
         /\ [b1 EXCEPT !.bookId = NoId] = [b2 EXCEPT !.bookId = NoId]

\* the sweep just answered ran on a store whose only record was unread, overdue
\* and owned by the addressee of a push that succeeded, with no complete
\* request served
OneOverduePushed(d) ==
    /\ last.op = "sweep"
    /\ last.code = StatusOK
    /\ completedOk = {}
    /\ DOMAIN store = {d.ref}
    /\ last.snap = {d}
    /\ d.data.status = "unread"
    /\ d.data.deadline < last.invokedAt
    /\ <<d.ref, d.data.userId>> \in last.pushed

\* C9 as stated: with one unread overdue record of owner u in the store and the
\* push succeeding, the sweep reports one record processed, has pushed exactly
\* once, to u, and the record's status is then "insulted".
C9_OneOverdueInsulted ==
    \A d \in last.snap :
      OneOverduePushed(d)
      => /\ last.count = 1
         /\ last.pushed = {<<d.ref, d.data.userId>>}
         /\ store[d.ref].status = "insulted"

\* C9 amended: the same, when the status write succeeds as well; the count and
\* the single push to u do not depend on that write.
C9_OneOverdueInsultedIfWritten ==
    \A d \in last.snap :
      OneOverduePushed(d)
      => /\ last.count = 1
         /\ last.pushed = {<<d.ref, d.data.userId>>}
         /\ d.ref \in last.wrote => store[d.ref].status = "insulted"

\* such a sweep was just answered, its status write done
C9_Witness ==
    \E d \in last.snap :
      /\ OneOverduePushed(d)
      /\ d.ref \in last.wrote
      /\ store[d.ref].status = "insulted"

\* C10: nothing claims a record for one sweep: while an invocation holds a
\* record between reading it and writing its status, and the record is stored
\* as that invocation read it, a query by another invocation still returns it.
C10_NoClaimStep ==
    \A s \in SweepIds :
      ( /\ sweep[s].pc \in {"push", "write"}
        /\ Exists(sweep[s].cur.ref)
        /\ store[sweep[s].cur.ref] = sweep[s].cur.data )
      => sweep[s].cur \in QueryByStatus

\* two sweeps in flight together have both counted the same record, both
\* pushed for it and both written its status
C10_Witness ==
    \E id \in DOMAIN store :
      /\ \A s \in SweepIds :
           /\ sweep[s].pc # "idle"
           /\ id \in sweep[s].counted
           /\ id \in Refs(sweep[s].pushed)
           /\ id \in sweep[s].wrote
      /\ store[id].status = "insulted"

\* C11: a failed message generation or a failed push for one record does not
\* end the sweep: the step sends no response, keeps the count and every
\* document not yet examined, and leaves the invocation at its loop; and a
\* sweep answers 200 only with no document left to examine, carrying its count.
C11_FailureDoesNotAbort ==
    [][ \A s \in SweepIds :
          /\ SweepPush(s, FALSE)
               => /\ sweep'[s].pc = "iter"
                  /\ sweep'[s].todo = sweep[s].todo
                  /\ sweep'[s].count = sweep[s].count
                  /\ last' = NoResp
          /\ \A d \in sweep[s].todo :
               (SweepExamine(s, d, "error") /\ "error" \in GenerateOutcomes)
               => /\ sweep'[s].pc = "iter"
                  /\ sweep'[s].todo = sweep[s].todo \ {d}
                  /\ sweep'[s].count >= sweep[s].count
                  /\ last' = NoResp
          /\ (last'.op = "sweep" /\ last'.sw = s /\ last'.code = StatusOK
                /\ sweep[s].pc # "idle")
               => /\ sweep[s].todo = {}
                  /\ last'.count = sweep[s].count ]_vars

\* a sweep over two overdue records was just answered 200 with count 2 although
\* generation or the push failed for both
C11_Witness ==
    /\ last.op = "sweep"
    /\ last.code = StatusOK
    /\ Cardinality(last.snap) = 2
    /\ last.count = 2
    /\ last.pushed = {}

\* C12 as stated: when a sweep finishes, every record it pushed for that is
\* still stored has status "insulted".
C12_PushedIsInsulted ==
    (last.op = "sweep" /\ last.code = StatusOK)
    => \A p \in last.pushed :
         Exists(p[1]) => store[p[1]].status = "insulted"

\* C12 amended: a successful push is always followed by the attempt to write
\* the status of the same document, and when that write succeeds the record's
\* status is "insulted" right after it; a failed write changes nothing.
C12_PushThenWriteAttempt ==
    [][ \A s \in SweepIds :
          /\ SweepPush(s, TRUE)
               => /\ sweep'[s].pc = "write"
                  /\ sweep'[s].cur = sweep[s].cur
          /\ (SweepWrite(s, TRUE) /\ Exists(sweep[s].cur.ref))
               => /\ store'[sweep[s].cur.ref].status = "insulted"
                  /\ sweep[s].cur.ref \in sweep'[s].wrote
          /\ SweepWrite(s, FALSE)
               => /\ store' = store
                  /\ sweep'[s].wrote = sweep[s].wrote
                  /\ sweep'[s].pc = "iter" ]_vars

\* a sweep in flight has pushed for a record and written its status, and the
\* record is stored as "insulted"
C12_Witness ==
    \E s \in SweepIds :
      /\ sweep[s].pc = "iter"
      /\ \E id \in sweep[s].wrote :
           /\ id \in Refs(sweep[s].pushed)
           /\ Exists(id)
           /\ store[id].status = "insulted"

\* the documents of a query result whose deadline is before t
OverdueAt(docs, t) == { d.ref : d \in { x \in docs : x.data.deadline < t } }

\* C13: the count a sweep reports is the number of scanned records it found
\* past their deadline (all those already overdue at the invocation, none that
\* is not overdue at the response), whatever became of generation, push and
\* status write, and so it is at least the number of records the sweep marked.
C13_CountIsOverdueScanned ==
    /\ \A s \in SweepIds :
         /\ sweep[s].count = Cardinality(sweep[s].counted)
         /\ sweep[s].wrote \subseteq sweep[s].counted
         /\ Refs(sweep[s].pushed) \subseteq sweep[s].counted
    /\ (last.op = "sweep" /\ last.code = StatusOK)
         => /\ last.count = Cardinality(last.counted)
            /\ OverdueAt(last.snap, last.invokedAt) \subseteq last.counted
            /\ last.counted \subseteq OverdueAt(last.snap, now)
            /\ last.wrote \subseteq last.counted
            /\ last.count >= Cardinality(last.wrote)

\* a sweep just reported more records than it marked, having marked one
C13_Witness ==
    /\ last.op = "sweep"
    /\ last.code = StatusOK
    /\ last.wrote # {}
    /\ last.count > Cardinality(last.wrote)

\* C14: with a secret configured, a sweep request whose Authorization header is
\* not "Bearer " followed by the secret is answered Unauthorized and starts no
\* invocation: no query, no push, no status change; with no secret configured
\* every sweep request is accepted and its query runs.
C14_SecretGate ==
    [][ \A s \in SweepIds, header \in AuthHeaders :
          handleCheckDeadlines(s, header)
          => /\ (cronSecret # "" /\ header # Bearer(cronSecret))
                  => /\ last'.op = "sweep"
                     /\ last'.code = StatusUnauthorized
                     /\ sweep' = sweep
                     /\ store' = store
             /\ cronSecret = ""
                  => /\ last' = NoResp
                     /\ sweep'[s].pc = "iter"
                     /\ sweep'[s].snap = QueryByStatus ]_vars

\* a sweep request was just answered Unauthorized while records that the query
\* would return are stored
C14_Witness ==
    /\ cronSecret # ""
    /\ last.op = "sweep"
    /\ last.code = StatusUnauthorized
    /\ QueryByStatus # {}

\* C15: a record leaves the store only by a delete request that names it and
\* carries the record's stored userId, answered 200; no other step, and no
\* delete by another caller, removes a record.
C15_RemovedOnlyByOwnerDelete ==
    [][ /\ \A id \in DOMAIN store \ DOMAIN store' :
             /\ last'.op = "delete"
             /\ last'.code = StatusOK
             /\ last'.bookId = id
             /\ DOMAIN store' = DOMAIN store \ {id}
        /\ (last'.op = "delete" /\ DOMAIN store' # DOMAIN store) =>
             \A body \in DeleteBodies, getOk \in BOOLEAN, delOk \in BOOLEAN :
               handleDeleteBook(body, getOk, delOk)
               => /\ Exists(body.bookId)
                  /\ body.userId = store[body.bookId].userId
                  /\ DOMAIN store' = DOMAIN store \ {body.bookId} ]_vars

\* a delete was just answered 200, its record is gone and another one is still
\* stored
C15_Witness ==
    /\ last.op = "delete"
    /\ last.code = StatusOK
    /\ ~Exists(last.bookId)
    /\ DOMAIN store # {}

\* C16: a step of a sweep adds and removes no record and changes no field of a
\* record but its status, and it leaves entirely unchanged every record whose
\* stored status is outside the scanned set or whose stored deadline has not
\* passed.
C16_SweepChangesStatusOnly ==
    [][ sweep' # sweep =>
          /\ DOMAIN store' = DOMAIN store
          /\ \A id \in DOMAIN store :
               /\ [store'[id] EXCEPT !.status = store[id].status] = store[id]
               /\ ( \/ store[id].status \notin ScanStatuses
                    \/ ~Before(store[id].deadline, now) )
                  => store'[id] = store[id] ]_vars

C18_ListNeedsOwner ==
    [][ last'.op = "list" =>
          \A queryOk \in BOOLEAN :
            handleGetBooks("", queryOk)
            => /\ last'.code = StatusBadRequest
               /\ last'.books = {}
               /\ store' = store ]_vars

\* a list was just answered Bad Request while records are stored
C18_Witness ==
    /\ last.op = "list"
    /\ last.code = StatusBadRequest
    /\ DOMAIN store # {}

\* C19 as stated: an update request whose userId matches the stored owner
\* replaces the whole stored record with the request body, empty and zero
\* values included.
C19_MatchingUpdateReplaces ==
    [][ (upd.pc = "set" /\ upd'.pc = "idle") =>
          /\ upd.book.bookId \in DOMAIN store'
          /\ store'[upd.book.bookId] = upd.book ]_vars

\* C19 amended: an update request whose userId matches the stored owner and
\* that is answered successfully replaces the whole stored record with the
\* request body, empty and zero values included; a failed write answers
\* Internal Server Error and leaves the store as it was.
C19_AnsweredUpdateReplaces ==
    [][ (upd.pc = "set" /\ upd'.pc = "idle") =>
          /\ Exists(upd.book.bookId) =>
               store[upd.book.bookId].userId = upd.book.userId
          /\ \A setOk \in BOOLEAN :
               UpdateSet(setOk) =>
                 IF last'.code = StatusOK
                 THEN /\ setOk
                      /\ upd.book.bookId \in DOMAIN store'
                      /\ store'[upd.book.bookId] = upd.book
                      /\ \A k \in DOMAIN store \ {upd.book.bookId} :
                           k \in DOMAIN store' /\ store'[k] = store[k]
                 ELSE /\ ~setOk
                      /\ last'.code = StatusInternalServerError
                      /\ store' = store ]_vars

\* an update was just answered successfully and the stored record now holds
\* the submitted empty title, author and status and the zero deadline
C19_Witness ==
    /\ last.op = "update"
    /\ last.code = StatusOK
    /\ Exists(last.bookId)
    /\ store[last.bookId].title = ""
    /\ store[last.bookId].author = ""
    /\ store[last.bookId].status = ""
    /\ store[last.bookId].deadline = ZeroTime
    /\ store[last.bookId].userId \in Users

\* C20 as stated: a complete request carries a record identifier only; for
\* any existing record it sets the status to "completed", with no owner
\* compared, and leaves every other field and every other record unchanged.
C20_CompleteSetsCompleted ==
    [][ last'.op = "complete" =>
          \A bookId \in Ids, updOk \in BOOLEAN :
            (Exists(bookId) /\ handleCompleteBook(bookId, updOk))
            => /\ DOMAIN store' = DOMAIN store
               /\ store'[bookId] = [store[bookId] EXCEPT !.status = "completed"]
               /\ \A k \in DOMAIN store \ {bookId} : store'[k] = store[k] ]_vars

\* C20 amended: a complete request carries a record identifier only; for any
\* existing record whose status write succeeds it sets the status to
\* "completed", with no owner compared, and leaves every other field and
\* every other record unchanged; a failed write answers Internal Server
\* Error and changes nothing.
C20_CompleteSetsCompletedIfWritten ==
    [][ last'.op = "complete" =>
          \A bookId \in Ids, updOk \in BOOLEAN :
            (Exists(bookId) /\ handleCompleteBook(bookId, updOk))
            => /\ DOMAIN store' = DOMAIN store
               /\ \A k \in DOMAIN store \ {bookId} : store'[k] = store[k]
               /\ IF updOk
                  THEN /\ last'.code = StatusOK
                       /\ store'[bookId] =
                            [store[bookId] EXCEPT !.status = "completed"]
                  ELSE /\ last'.code = StatusInternalServerError
                       /\ store'[bookId] = store[bookId] ]_vars

\* a complete request was just answered successfully for one of two stored
\* records of different owners; the other record is not completed
C20_Witness ==
    /\ last.op = "complete"
    /\ last.code = StatusOK
    /\ Exists(last.bookId)
    /\ store[last.bookId].status = "completed"
    /\ store[last.bookId].title = "t"
    /\ \E k \in DOMAIN store :
         /\ store[k].userId # store[last.bookId].userId
         /\ store[k].status # "completed"

\* the record a create is to store for a request body under identifier id
Submitted(body, id) ==
    [body EXCEPT !.status = IF body.status = "" THEN "unread" ELSE body.status,
                 !.bookId = id]

\* C21: a successful create stores one new record whose fields equal the
\* submitted ones, with status "unread" when the request carried none, under
\* an identifier that was not in use, and answers 201 with that identifier.
C21_CreateStoresSubmitted ==
    [][ (last'.op = "create" \/ reg' # reg) =>
          /\ \A body \in RegisterBodies :
               (~MissingRequired(body) /\ handleRegisterBook(body, TRUE))
               => /\ last'.code = StatusCreated
                  /\ last'.bookId # NoId
                  /\ last'.bookId \notin DOMAIN store
                  /\ DOMAIN store' = DOMAIN store \cup {last'.bookId}
                  /\ store'[last'.bookId] = Submitted(body, last'.bookId)
                  /\ \A k \in DOMAIN store : store'[k] = store[k]
          /\ \A body \in RegisterBodies :
               (~MissingRequired(body) /\ legacyRegisterBook(body, TRUE))
               => /\ reg'.ref # NoId
                  /\ reg'.ref \notin DOMAIN store
                  /\ reg'.book = Submitted(body, reg'.ref)
                  /\ DOMAIN store' = DOMAIN store \cup {reg'.ref}
                  /\ \A k \in DOMAIN store : store'[k] = store[k]
          /\ (reg.pc = "set" /\ last'.code = StatusCreated)
               => /\ last'.bookId = reg.ref
                  /\ DOMAIN store' = DOMAIN store \cup {reg.ref}
                  /\ store'[reg.ref] = reg.book
                  /\ \A k \in DOMAIN store \ {reg.ref} : store'[k] = store[k]
        ]_vars

\* the earlier build just answered 201 for a second record, stored with the
\* default status under the identifier it answered
C21_Witness ==
    /\ variant = "legacy"
    /\ last.op = "create"
    /\ last.code = StatusCreated
    /\ Cardinality(DOMAIN store) = 2
    /\ Exists(last.bookId)
    /\ store[last.bookId].status = "unread"
    /\ store[last.bookId].bookId = last.bookId

\* the status enumeration
Statuses == {"unread", "reading", "insulted", "completed"}

\* C22: in every reachable state the status of every stored record is one of
\* unread, reading, insulted, completed.
C22_StatusEnumerated ==
    \A id \in DOMAIN store : store[id].status \in Statuses

\* C23: in the build that asks the text-generation API, the message for an
\* overdue record is the first returned candidate, and the fixed fallback
\* string both when the answer has no candidate and when the call fails; a
\* push for the record follows in every case.
C23_FailureFallsBack ==
    [][ (variant = "legacy" /\ sweep' # sweep) =>
          \A s \in SweepIds, outcome \in {"candidate", "fallback", "error"} :
            \A d \in sweep[s].todo :
              (Before(d.data.deadline, now) /\ SweepExamine(s, d, outcome))
              => /\ sweep'[s].pc = "push"
                 /\ sweep'[s].cur = d
                 /\ sweep'[s].msg =
                      IF outcome = "candidate" THEN "candidate" ELSE "fallback"
        ]_vars

\* C24: an OPTIONS request to any route is answered 200 by the CORS wrapper
\* and never reaches the wrapped handler: no record is read or changed and no
\* sweep or push is started, with or without a valid secret.
C24_PreflightStopsAtWrapper ==
    [][ served' # served =>
          \A route \in Routes, header \in AuthHeaders :
            corsMiddleware(route, header)
            => /\ last' = Resp("options", StatusOK)
               /\ UNCHANGED <<store, nextDoc, sweep, upd, reg, completedOk>>
        ]_vars

\* a preflight was just answered while a secret is configured, an unread
\* record is overdue and no sweep is in flight
C24_Witness ==
    /\ last = Resp("options", StatusOK)
    /\ cronSecret # ""
    /\ \A s \in SweepIds : sweep[s] = IdleSweep
    /\ \E id \in DOMAIN store :
         store[id].status = "unread" /\ Before(store[id].deadline, now)

\* C25: the set of stored identifiers grows only by a successful create: a
\* record that a delete has removed never reappears, and an update or a
\* complete that names an absent identifier is answered with an error and
\* creates nothing.
C25_GrowsOnlyByCreate ==
    [][ /\ \A id \in DOMAIN store' \ DOMAIN store :
             /\ last'.op = "create"
             /\ last'.code = StatusCreated
             /\ last'.bookId = id
        /\ (last'.op \in {"update", "complete"} /\ last'.code = StatusOK)
             => last'.bookId \in DOMAIN store ]_vars

\* C26 as stated: in main.go's sweep a record that is already "insulted" and
\* still overdue is counted and pushed again by every later sweep; the number
\* of pushes for one record is not bounded by one.
C26_InsultedPushedAgain ==
    (variant = "main" /\ last.op = "sweep" /\ last.code = StatusOK) =>
        \A d \in last.snap :
          (d.data.status = "insulted" /\ Before(d.data.deadline, last.invokedAt))
          => /\ d.ref \in last.counted
             /\ d.ref \in Refs(last.pushed)

\* C26 amended: in main.go's sweep a record that is already "insulted" and
\* still overdue is scanned by every later accepted sweep, and counted, with a
\* push attempted for it again, whenever that sweep examines it; a push that
\* succeeds is one more push for the record, so the number of pushes for one
\* record is not bounded by one.
C26_InsultedScannedAgain ==
    [][ (variant = "main" /\ sweep' # sweep) =>
          \A s \in SweepIds :
            /\ (sweep[s].pc = "idle" /\ sweep'[s].pc = "iter")
                 => \A k \in DOMAIN store :
                      store[k].status = "insulted"
                      => [ref |-> k, data |-> store[k]] \in sweep'[s].snap
            /\ \A d \in sweep[s].todo :
                 ( /\ d.data.status = "insulted"
                   /\ Before(d.data.deadline, now)
                   /\ SweepExamine(s, d, "pool") )
                 => /\ sweep'[s].count = sweep[s].count + 1
                    /\ d.ref \in sweep'[s].counted
                    /\ sweep'[s].pc = "push"
                    /\ sweep'[s].cur = d
            /\ (sweep'[s].pc = "idle" /\ last'.code = StatusOK)
                 => \A d \in sweep[s].snap :
                      ( /\ d.data.status = "insulted"
                        /\ Before(d.data.deadline, sweep[s].invokedAt) )
                      => d.ref \in sweep[s].counted ]_vars

\* a sweep just ended that scanned a record already "insulted" and pushed
\* for it once more
C26_Witness ==
    /\ variant = "main"
    /\ last.op = "sweep"
    /\ last.code = StatusOK
    /\ \E d \in last.snap :
         /\ d.data.status = "insulted"
         /\ d.ref \in last.counted
         /\ d.ref \in Refs(last.pushed)

\* C27: a create request answered with an error (400 or 500) leaves the store
\* exactly as it was when the request arrived: no record, complete or
\* partial, is persisted by a failed create.
C27_FailedCreateStoresNothing ==
    [][ (last'.op = "create" \/ reg' # reg) =>
          /\ \A body \in RegisterBodies, setOk \in BOOLEAN :
               ( /\ handleRegisterBook(body, setOk)
                 /\ last'.code \in {StatusBadRequest, StatusInternalServerError} )
               => store' = store
          /\ \A body \in RegisterBodies, addOk \in BOOLEAN :
               ( /\ legacyRegisterBook(body, addOk)
                 /\ last'.code \in {StatusBadRequest, StatusInternalServerError} )
               => store' = store
          /\ (reg.pc = "set" /\ last'.code = StatusInternalServerError)
               => reg.ref \notin DOMAIN store' ]_vars

\* C28: in every reachable state, the states inside a create included, the
\* bookId field of each stored record equals the key it is stored under and
\* is not empty.
C28_BookIdIsKey ==
    \A id \in DOMAIN store : store[id].bookId = id /\ store[id].bookId # NoId

\* C29: the owner of a stored record never changes after creation.  No step
\* changes the userId of a record that stays stored; an update is let through
\* to its write only with the stored owner as its userId, and its write
\* stores that userId, also when it stores the record anew.
C29_OwnerNeverChanges ==
    [][ /\ \A id \in DOMAIN store \cap DOMAIN store' :
             store'[id].userId = store[id].userId
        /\ (upd.pc = "idle" /\ upd'.pc = "set")
             => /\ Exists(upd'.book.bookId)
                /\ store[upd'.book.bookId].userId = upd'.book.userId
        /\ (upd.pc = "set" /\ upd'.pc = "idle")
             => \A id \in DOMAIN store' :
                  (id \notin DOMAIN store \/ store'[id] # store[id])
                  => id = upd.book.bookId /\ store'[id].userId = upd.book.userId
      ]_vars

\* an update was just applied to one of two stored records of different
\* owners, and the record keeps a known owner
C29_Witness ==
    /\ last.op = "update"
    /\ last.code = StatusOK
    /\ Exists(last.bookId)
    /\ \E k \in DOMAIN store :
         /\ k # last.bookId
         /\ store[k].userId # store[last.bookId].userId
         /\ store[k].userId \in Users
         /\ store[last.bookId].userId \in Users

====
